---- MODULE Spec2Model ----
(***************************************************************************)
(* Model of scripts/i18n_autotranslate.py: the incremental synchroniser    *)
(* that keeps the per-locale documents of i18n/ in step with en.json and   *)
(* zh.json.                                                                *)
(*                                                                         *)
(* Texts (keys, values, digests) are sequences of one-character strings,   *)
(* so that startswith, strip, len, indexing and replace are computed as    *)
(* Python computes them.  A JSON value is a record [t, s]: t = "str" for a *)
(* string with text s, any other t for a value that is not a string.       *)
(***************************************************************************)
EXTENDS Integers, Sequences, FiniteSets, TLC

\* ------------------------------------------------------------------------
\* Bounds of the model
\* ------------------------------------------------------------------------
MaxPasses == 3
MaxEdits == 1
MaxClock == 1
MaxRuns == 1

\* ------------------------------------------------------------------------
\* Texts used by the model
\* ------------------------------------------------------------------------
K_greeting == <<"g", "r", "e", "e", "t">>
K_title == <<"t", "i", "t", "l", "e">>
K_lang_en == <<"l", "a", "n", "g", "_", "e", "n">>
K_privacy_date == <<"p", "r", "i", "v", "a", "c", "y", "_", "d", "a", "t", "e">>
K_meta == <<"_", "m", "e", "t", "a">>

T_Hi == <<"H", "i">>
T_Yo == <<"Y", "o">>
T_Date == <<"2", "0", "2", "4", "-", "0", "3", "-", "0", "1">>
T_Blank == <<" ">>
T_English == <<"E", "n">>

Str(s) == [t |-> "str", s |-> s]
Num == [t |-> "num", s |-> <<"7">>]
isinstance_str(v) == v.t = "str"

\* ------------------------------------------------------------------------
\* Paths and strategy (module constants of the script)
\* ------------------------------------------------------------------------
\* A path of I18N_DIR is named by its stem (fr.json -> "fr")
L_en == <<"e", "n">>
L_zh == <<"z", "h">>
L_zhHant == <<"z", "h", "-", "H", "a", "n", "t">>
L_fr == <<"f", "r">>
L_de == <<"d", "e">>
Langs == {L_en, L_zh, L_zhHant, L_fr, L_de}

SOURCE_ZH == L_zh
SOURCE_EN == L_en
ZH_TRACK_TARGET == L_zhHant
max_retries == 3

FORCE_COPY_KEYS_FROM_EN == {K_privacy_date}

G_WealthX == <<"W", "e", "a", "l", "t", "h", "X">>
G_Flow == <<"F", "l", "o", "w">>
G_Flows == <<"F", "l", "o", "w", "s">>
G_iCloud == <<"i", "C", "l", "o", "u", "d">>
G_SFSymbols == <<"S", "F", " ", "S", "y", "m", "b", "o", "l", "s">>

\* a glossary whose mapped form holds the source form again
GLOSSARY_plural == << <<G_Flow, G_Flows>> >>

\* GLOSSARY.items() in insertion order: <<term, mapped form>>
GLOSSARY ==
  << <<G_WealthX, G_WealthX>>, <<G_Flow, G_Flow>>, <<G_Flows, G_Flows>>,
     <<G_iCloud, G_iCloud>>, <<G_SFSymbols, G_SFSymbols>> >>

\* ------------------------------------------------------------------------
\* Mappings (Python dicts) as functions with a finite domain
\* ------------------------------------------------------------------------
EmptyMap == [k \in {} |-> k]
Restrict(f, S) == [k \in (DOMAIN f) \cap S |-> f[k]]
Without(f, k) == [j \in (DOMAIN f) \ {k} |-> f[j]]
Put(f, k, v) == [j \in (DOMAIN f) \cup {k} |-> IF j = k THEN v ELSE f[j]]
Update(f, g) == [j \in (DOMAIN f) \cup (DOMAIN g) |-> IF j \in DOMAIN g THEN g[j] ELSE f[j]]

\* ------------------------------------------------------------------------
\* Python str primitives
\* ------------------------------------------------------------------------
Whitespace == {" ", "\t", "\n"}
Digits == {"0", "1", "2", "3", "4", "5", "6", "7", "8", "9"}

RECURSIVE lstrip(_)
lstrip(s) == IF s # <<>> /\ Head(s) \in Whitespace THEN lstrip(Tail(s)) ELSE s

RECURSIVE rstrip(_)
rstrip(s) ==
  IF s # <<>> /\ s[Len(s)] \in Whitespace THEN rstrip(SubSeq(s, 1, Len(s) - 1)) ELSE s

strip(s) == rstrip(lstrip(s))

isdigit(s) == s # <<>> /\ \A i \in 1..Len(s) : s[i] \in Digits

DigitVal(c) == CHOOSE n \in 0..9 : <<"0", "1", "2", "3", "4", "5", "6", "7", "8", "9">>[n + 1] = c

RECURSIVE int(_)
int(s) == IF s = <<>> THEN 0 ELSE 10 * int(SubSeq(s, 1, Len(s) - 1)) + DigitVal(s[Len(s)])

startswith(s, p) == Len(s) >= Len(p) /\ SubSeq(s, 1, Len(p)) = p

\* str.replace(old, new): leftmost non-overlapping occurrences
RECURSIVE replace(_, _, _)
replace(s, old, new) ==
  IF s = <<>> \/ old = <<>> THEN s
  ELSE IF startswith(s, old)
       THEN new \o replace(SubSeq(s, Len(old) + 1, Len(s)), old, new)
       ELSE <<Head(s)>> \o replace(Tail(s), old, new)

\* ------------------------------------------------------------------------
\* Force-copy rules
\* ------------------------------------------------------------------------
is_lang_label_key(k) == startswith(k, <<"l", "a", "n", "g", "_">>)

is_iso_date_value(v) ==
  IF ~isinstance_str(v) THEN FALSE
  ELSE LET s == strip(v.s) IN
    IF Len(s) # 10 THEN FALSE
    ELSE IF s[5] # "-" \/ s[8] # "-" THEN FALSE
    ELSE LET y == SubSeq(s, 1, 4)
             m == SubSeq(s, 6, 7)
             d == SubSeq(s, 9, 10)
         IN IF ~(isdigit(y) /\ isdigit(m) /\ isdigit(d)) THEN FALSE
            ELSE LET mm == int(m)
                     dd == int(d)
                 IN 1 <= mm /\ mm <= 12 /\ 1 <= dd /\ dd <= 31

is_force_copy_item(k, v) ==
  IF is_lang_label_key(k) THEN TRUE
  ELSE IF k \in FORCE_COPY_KEYS_FROM_EN THEN TRUE
  ELSE IF is_iso_date_value(v) THEN TRUE
  ELSE FALSE

\* ------------------------------------------------------------------------
\* Helpers
\* ------------------------------------------------------------------------
\* hashlib.sha256(text).hexdigest(): a digest of the exact text; SHA-256 is
\* modelled as collision-free, the digest of a text being the text behind a
\* marker no text of the model starts with.
sha(text) == <<"#">> \o text

RECURSIVE apply_glossary_from(_, _)
apply_glossary_from(text, i) ==
  IF i > Len(GLOSSARY) THEN text
  ELSE apply_glossary_from(replace(text, GLOSSARY[i][1], GLOSSARY[i][2]), i + 1)

apply_glossary(text) == apply_glossary_from(text, 1)

\* A file of i18n/: exists = whether the path exists; core = the keys other
\* than _meta; meta = the _meta record.  A loaded document (a Python dict)
\* is the record [core, meta].  The model only holds _meta records that are
\* absent or dicts whose source_hashes is a dict of strings, which is what
\* the script itself writes.
NoMeta ==
  [present |-> FALSE, source_hashes |-> EmptyMap, generated_by |-> "",
   source_lang |-> "", target_lang |-> "", updated_at_utc |-> -1]
EmptyDoc == [core |-> EmptyMap, meta |-> NoMeta]
Absent == [exists |-> FALSE, core |-> EmptyMap, meta |-> NoMeta]
File(core, meta) == [exists |-> TRUE, core |-> core, meta |-> meta]

load_json(disk_, path) ==
  IF ~disk_[path].exists THEN EmptyDoc
  ELSE [core |-> disk_[path].core, meta |-> disk_[path].meta]

save_json(disk_, path, data) ==
  [disk_ EXCEPT ![path] = File(data.core, data.meta)]

split_meta(d) ==
  [core |-> Restrict(d.core, {k \in DOMAIN d.core : isinstance_str(d.core[k])}),
   meta |-> d.meta]

get_source_hashes(dst_meta) == IF dst_meta.present THEN dst_meta.source_hashes ELSE EmptyMap

\* src: the string-valued keys of the source; returns the document and the
\* changed flag
sync_deletions(src, dst_full) ==
  LET gone == {k \in DOMAIN dst_full.core : k \notin DOMAIN src}
      hashes == Restrict(get_source_hashes(dst_full.meta),
                         DOMAIN get_source_hashes(dst_full.meta) \ gone)
      core == Restrict(dst_full.core, DOMAIN dst_full.core \ gone)
      rewrite == dst_full.meta.present /\ dst_full.meta.source_hashes # hashes
      meta == IF rewrite THEN [dst_full.meta EXCEPT !.source_hashes = hashes]
              ELSE dst_full.meta
  IN [doc |-> [core |-> core, meta |-> meta],
      changed |-> (gone # {}) \/ rewrite]

\* src, dst: key -> text (the values are strings: both come from split_meta)
build_plan(src, dst, dst_meta) ==
  LET dst_hashes == get_source_hashes(dst_meta)
      translate(k) ==
        IF k \notin DOMAIN dst THEN TRUE
        ELSE IF ~isinstance_str(dst[k]) \/ strip(dst[k].s) = <<>> THEN TRUE
        ELSE IF k \notin DOMAIN dst_hashes THEN FALSE
        ELSE dst_hashes[k] # sha(src[k].s)
      seed(k) ==
        /\ k \in DOMAIN dst
        /\ ~(~isinstance_str(dst[k]) \/ strip(dst[k].s) = <<>>)
        /\ k \notin DOMAIN dst_hashes
  IN [needs_translate |-> Restrict(src, {k \in DOMAIN src : translate(k)}),
      needs_hash_seed |-> {k \in DOMAIN src : seed(k)}]

\* One attempt of the service: ok = FALSE when the call or json.loads
\* raises, else data = the decoded JSON object (key -> text).
ServiceError == [ok |-> FALSE, data |-> EmptyMap]
ServiceReply(data) == [ok |-> TRUE, data |-> data]

call_openai_translate(items, outcome) ==
  [raised |-> ~outcome.ok,
   out |-> [k \in DOMAIN outcome.data |-> Str(apply_glossary(outcome.data[k].s))]]

\* translate_attempt giving up at the first failed attempt
translate_attempt_once(items, outcomes, i) ==
  LET r == call_openai_translate(items, outcomes[i + 1])
  IN IF ~r.raised THEN [raised |-> FALSE, out |-> r.out, calls |-> i + 1]
     ELSE [raised |-> TRUE, out |-> EmptyMap, calls |-> i + 1]

\* outcomes: the outcome of attempt 1, 2, 3 of the service, in order
RECURSIVE translate_attempt(_, _, _)
translate_attempt(items, outcomes, i) ==
  IF i >= max_retries THEN [raised |-> TRUE, out |-> EmptyMap, calls |-> i]
  ELSE LET r == call_openai_translate(items, outcomes[i + 1])
       IN IF ~r.raised THEN [raised |-> FALSE, out |-> r.out, calls |-> i + 1]
          ELSE translate_attempt(items, outcomes, i + 1)

\* translate_batch without its test of an empty batch
translate_batch_always_calls(items, outcomes) ==
  translate_attempt(items, outcomes, 0)

translate_batch(items, outcomes) ==
  IF DOMAIN items = {} THEN [raised |-> FALSE, out |-> EmptyMap, calls |-> 0]
  ELSE translate_attempt(items, outcomes, 0)

\* updates: key -> source text; now = time.gmtime() to the second
upsert_meta_hashes(dst_full, updates, src_lang, dst_lang, now) ==
  LET meta == IF dst_full.meta.present THEN dst_full.meta
              ELSE [NoMeta EXCEPT !.present = TRUE]
      hashes == Update(meta.source_hashes, [k \in DOMAIN updates |-> sha(updates[k].s)])
  IN [dst_full EXCEPT !.meta =
        [present |-> TRUE, source_hashes |-> hashes,
         generated_by |-> "i18n_autotranslate.py",
         source_lang |-> src_lang, target_lang |-> dst_lang,
         updated_at_utc |-> now]]

apply_force_copy(authoritative_en_core, dst_full) ==
  LET forced == {k \in DOMAIN authoritative_en_core :
                   is_force_copy_item(k, authoritative_en_core[k])}
      differs == {k \in forced : k \notin DOMAIN dst_full.core
                                 \/ dst_full.core[k] # authoritative_en_core[k]}
  IN [doc |-> [dst_full EXCEPT !.core = Update(dst_full.core, Restrict(authoritative_en_core, forced))],
      changed |-> differs # {}]

\* dst_full[k] = v for every key of the reply.  A reply key "_meta" replaces
\* the _meta dict by a string; upsert_meta_hashes, which always follows a
\* translation, then starts from a fresh dict, and json.dumps of the string
\* differs from that of the dict it becomes: the same as dropping _meta.
merge_translated(dst_full, translated) ==
  [core |-> Update(dst_full.core, Without(translated, K_meta)),
   meta |-> IF K_meta \in DOMAIN translated THEN NoMeta ELSE dst_full.meta]

\* write_back with the write moved ahead of the translation: the document
\* as force-copy and deletion left it is saved even when the batch fails
write_back_before_translate(disk_, dst_path, raised, changed, dst_full) ==
  IF raised \/ changed
  THEN [disk |-> save_json(disk_, dst_path, dst_full), saved |-> TRUE]
  ELSE [disk |-> disk_, saved |-> FALSE]

\* The end of the pass: when translate_batch raised, the exception has left
\* process_target_file before this point and nothing is written; otherwise
\* save_json is called iff one of the four flags is set.
write_back(disk_, dst_path, raised, changed, dst_full) ==
  IF raised THEN [disk |-> disk_, saved |-> FALSE]
  ELSE IF changed THEN [disk |-> save_json(disk_, dst_path, dst_full), saved |-> TRUE]
  ELSE [disk |-> disk_, saved |-> FALSE]

classified(k, v, authoritative_en_core) ==
  is_force_copy_item(k, IF k \in DOMAIN authoritative_en_core
                        THEN authoritative_en_core[k] ELSE v)

\* The pass over one destination, in the order of the code.  Each step
\* hands its locals to the next one (sft is src_for_translate, dfp is
\* dst_for_plan).  In the result, excluded and dst_excluded are the keys of
\* the source and of the destination left out of the plan; raised: translate_batch
\* raised and the exception left the function; saved: save_json was called
\* with doc.

\* lines 363-380: meta_changed, then the write
pass_save(disk_, dst_lang, fc, del, plan, src_core, sft, dfp, forced, tb, merged, seed_updates, upserted) ==
  LET wb == write_back(disk_, dst_lang, tb.raised,
                       \/ fc.changed
                       \/ del.changed
                       \/ DOMAIN plan.needs_translate # {}
                       \/ (DOMAIN seed_updates # {} /\ merged.meta # upserted.meta),
                       IF tb.raised THEN del.doc ELSE upserted)
  IN [raised |-> tb.raised,
      saved |-> wb.saved,
      doc |-> IF tb.raised THEN del.doc ELSE upserted,
      disk |-> wb.disk,
      needs_translate |-> plan.needs_translate,
      needs_hash_seed |-> plan.needs_hash_seed,
      excluded |-> DOMAIN src_core \ DOMAIN sft,
      dst_excluded |-> DOMAIN split_meta(del.doc).core \ DOMAIN dfp,
      forced |-> forced,
      reply |-> IF tb.raised THEN EmptyMap ELSE tb.out,
      calls |-> tb.calls,
      force_changed |-> fc.changed,
      deleted_changed |-> del.changed]

\* lines 364-366: upsert_meta_hashes when seed_updates is not empty
pass_upsert(disk_, src_lang, dst_lang, now, fc, del, plan, src_core, sft, dfp, forced, tb, merged, seed_updates) ==
  pass_save(disk_, dst_lang, fc, del, plan, src_core, sft, dfp, forced, tb, merged, seed_updates,
            IF DOMAIN seed_updates # {}
            THEN upsert_meta_hashes(merged, seed_updates, src_lang, dst_lang, now)
            ELSE merged)

\* lines 343-361: merge of the reply, then seed_updates = the seeded keys,
\* the queued keys and the force-copied keys of en.json, in that order
pass_merge(disk_, src_lang, dst_lang, E, now, fc, del, plan, src_core, sft, dfp, forced, tb) ==
  pass_upsert(disk_, src_lang, dst_lang, now, fc, del, plan, src_core, sft, dfp, forced, tb,
              IF DOMAIN plan.needs_translate # {} THEN merge_translated(del.doc, tb.out)
              ELSE del.doc,
              Update(Update(Restrict(sft, plan.needs_hash_seed), plan.needs_translate),
                     Restrict(E, forced)))

\* lines 343-344: translate_batch when needs_translate is not empty
pass_translate(disk_, src_lang, dst_lang, E, now, outcomes, fc, del, plan, src_core, sft, dfp) ==
  pass_merge(disk_, src_lang, dst_lang, E, now, fc, del, plan, src_core, sft, dfp,
             {k \in DOMAIN E : is_force_copy_item(k, E[k])},
             IF DOMAIN plan.needs_translate # {}
             THEN translate_batch(plan.needs_translate, outcomes)
             ELSE [raised |-> FALSE, out |-> EmptyMap, calls |-> 0])

\* line 339: build_plan over the keys that are not classified force-copy
pass_plan(disk_, src_lang, dst_lang, E, now, outcomes, fc, del, src_core, sft, dst_for_plan) ==
  pass_translate(disk_, src_lang, dst_lang, E, now, outcomes, fc, del,
                 build_plan(sft, dst_for_plan, split_meta(del.doc).meta), src_core, sft,
                 dst_for_plan)

\* lines 333-337: split again, src_for_translate and dst_for_plan
pass_exclude(disk_, src_lang, dst_lang, E, now, outcomes, fc, del, src_core, dst_core) ==
  pass_plan(disk_, src_lang, dst_lang, E, now, outcomes, fc, del, src_core,
            Restrict(src_core, {k \in DOMAIN src_core : ~classified(k, src_core[k], E)}),
            Restrict(dst_core, {k \in DOMAIN dst_core : ~classified(k, dst_core[k], E)}))

\* line 330-333: sync_deletions, then split_meta of what is left
pass_split(disk_, src_lang, dst_lang, E, now, outcomes, fc, del, src_core) ==
  pass_exclude(disk_, src_lang, dst_lang, E, now, outcomes, fc, del, src_core,
               split_meta(del.doc).core)

pass_delete(disk_, src_lang, dst_lang, E, now, outcomes, fc, src_core) ==
  pass_split(disk_, src_lang, dst_lang, E, now, outcomes, fc,
             sync_deletions(src_core, fc.doc), src_core)

\* lines 321-327: the two loads and apply_force_copy.  E is
\* authoritative_en_core.
process_target_file(disk_, src_lang, dst_lang, E, now, outcomes) ==
  pass_delete(disk_, src_lang, dst_lang, E, now, outcomes,
              apply_force_copy(E, load_json(disk_, dst_lang)),
              split_meta(load_json(disk_, src_lang)).core)

\* ------------------------------------------------------------------------
\* Directory listing
\* ------------------------------------------------------------------------
\* Code points of the characters of the stems, in increasing order
Alphabet == <<"-", "H", "a", "d", "e", "f", "h", "n", "r", "t", "z">>
ord(c) == CHOOSE i \in 1..Len(Alphabet) : Alphabet[i] = c

\* a < b for Python strings
RECURSIVE str_lt(_, _)
str_lt(a, b) ==
  IF b = <<>> THEN FALSE
  ELSE IF a = <<>> THEN TRUE
  ELSE IF Head(a) # Head(b) THEN ord(Head(a)) < ord(Head(b))
  ELSE str_lt(Tail(a), Tail(b))

RECURSIVE sorted(_)
sorted(S) ==
  IF S = {} THEN <<>>
  ELSE LET m == CHOOSE x \in S : \A y \in S \ {x} : str_lt(x, y)
       IN <<m>> \o sorted(S \ {m})

list_target_langs_from_folder(disk_) == sorted({l \in DOMAIN disk_ : disk_[l].exists})

\* skip without the two authoritative documents
skip_only_zh_target == {ZH_TRACK_TARGET}

skip == {L_zh, L_en, ZH_TRACK_TARGET}

\* ------------------------------------------------------------------------
\* State
\* ------------------------------------------------------------------------
VARIABLES
  disk,      \* stem -> file of i18n/
  clock,     \* time.gmtime(), in seconds
  pc,        \* position of main: idle, zh_track, en_track, done, failed, config_error
  authoritative_en_core,  \* main's local: the string keys of en.json
  targets,   \* main's local: the listing
  idx,       \* main's loop position in targets (1-based)
  processed, \* history: destinations passed to process_target_file in this run
  last,      \* history: what the last call of process_target_file did
  origin,    \* history: stem -> key -> source text its value was translated from
  edited,    \* history: source keys edited since the last pass
  clean,     \* history: stems passed successfully with no source edit since
  target,    \* the destination followed by the pass-level specifications
  conforming, \* whether the service keeps to its contract when it answers
  passes, edits, runs,  \* counters bounding the exploration
  probe      \* the last direct call of one function of the script, with its result

\* the variables of main and of the passes
runvars ==
  <<disk, clock, pc, authoritative_en_core, targets, idx, processed, last,
    origin, edited, clean, target, conforming, passes, edits, runs>>

vars ==
  <<disk, clock, pc, authoritative_en_core, targets, idx, processed, last,
    origin, edited, clean, target, conforming, passes, edits, runs, probe>>

ProbeNone == [fn |-> "none"]

LastNone ==
  [kind |-> "none", dst |-> <<>>, src |-> <<>>, raised |-> FALSE, saved |-> FALSE,
   needs_translate |-> EmptyMap, needs_hash_seed |-> {}, excluded |-> {},
   dst_excluded |-> {},
   forced |-> {}, reply |-> EmptyMap, calls |-> 0, force_changed |-> FALSE,
   deleted_changed |-> FALSE, doc |-> EmptyDoc, data |-> EmptyMap]

\* ------------------------------------------------------------------------
\* The translation service: what it may answer to a batch
\* ------------------------------------------------------------------------
ModelKeys == {K_greeting, K_title, K_lang_en, K_privacy_date}

\* a rendering of the source text in the target locale
Localized(text) == <<"~">> \o text
T_Extra == <<"X">>

ReplyValues(v) == {Str(Localized(v.s)), Str(T_Blank)}

\* replies with the key set of the batch
ConformingReplies(items) ==
  {f \in [DOMAIN items -> UNION {ReplyValues(items[k]) : k \in DOMAIN items}] :
     \A k \in DOMAIN items : f[k] \in ReplyValues(items[k])}

Faithful(items) == [k \in DOMAIN items |-> Str(Localized(items[k].s))]

\* replies with a key missing, or with one key more (a document key or _meta)
DeviatingReplies(items) ==
  {Without(Faithful(items), k) : k \in DOMAIN items}
  \cup {Put(Faithful(items), k, Str(T_Extra)) :
          k \in (ModelKeys \cup {K_meta}) \ DOMAIN items}

\* conforming: the service answers as its contract says (the keys of the
\* batch, each with a rendering of its text); else it may answer anything
Replies(items) ==
  IF conforming THEN {Faithful(items)}
  ELSE ConformingReplies(items) \cup DeviatingReplies(items)

\* the service fails `fails` times, then answers data
Outcomes(fails, data) ==
  [i \in 1..max_retries |-> IF i <= fails THEN ServiceError ELSE ServiceReply(data)]

AllFail == Outcomes(max_retries, EmptyMap)

src_lang_of(dst_lang) == IF dst_lang = ZH_TRACK_TARGET THEN SOURCE_ZH ELSE SOURCE_EN

\* ------------------------------------------------------------------------
\* One call of process_target_file, with its history
\* ------------------------------------------------------------------------
NewOrigin(dst_lang, r) ==
  LET old == origin[dst_lang]
      keep == {k \in DOMAIN old : /\ k \in DOMAIN r.doc.core
                                  /\ k \in DOMAIN disk[dst_lang].core
                                  /\ disk[dst_lang].core[k] = r.doc.core[k]
                                  /\ k \notin DOMAIN r.reply}
      fresh == DOMAIN r.reply \cap DOMAIN r.needs_translate
  IN [k \in keep \cup fresh |-> IF k \in fresh THEN r.needs_translate[k].s ELSE old[k]]

Call(dst_lang, en_core, now, outcomes) ==
  \E r \in {process_target_file(disk, src_lang_of(dst_lang), dst_lang, en_core, now, outcomes)} :
     /\ disk' = r.disk
     /\ clock' = now
     /\ last' = [kind |-> "pass", dst |-> dst_lang, src |-> src_lang_of(dst_lang),
                 raised |-> r.raised, saved |-> r.saved,
                 needs_translate |-> r.needs_translate,
                 needs_hash_seed |-> r.needs_hash_seed,
                 excluded |-> r.excluded, dst_excluded |-> r.dst_excluded,
                 forced |-> r.forced, reply |-> r.reply,
                 calls |-> r.calls, force_changed |-> r.force_changed,
                 deleted_changed |-> r.deleted_changed, doc |-> r.doc,
                 data |-> IF r.raised \/ r.calls = 0 THEN EmptyMap
                          ELSE outcomes[r.calls].data]
     /\ origin' = IF r.raised THEN origin
                  ELSE [origin EXCEPT ![dst_lang] = NewOrigin(dst_lang, r)]
     /\ clean' = IF r.raised THEN clean ELSE clean \cup {dst_lang}
     /\ edited' = {}

\* what the service does over the attempts of one batch: it fails every
\* time, or answers the first attempt with any of its replies, or fails all
\* attempts but the last and then answers
ServiceRuns(batch) ==
  {AllFail} \cup {Outcomes(0, data) : data \in Replies(batch)}
            \cup {Outcomes(max_retries - 1, Faithful(batch))}

ProcessTarget(dst_lang, en_core) ==
  \E batch \in {process_target_file(disk, src_lang_of(dst_lang), dst_lang, en_core,
                                    clock, AllFail).needs_translate} :
    \E now \in {clock, clock + 1} \cap (0..MaxClock) :
       \/ /\ DOMAIN batch = {}
          /\ Call(dst_lang, en_core, now, AllFail)
       \/ /\ DOMAIN batch # {}
          /\ \E outcomes \in ServiceRuns(batch) :
               Call(dst_lang, en_core, now, outcomes)

\* ------------------------------------------------------------------------
\* Upstream edits of the authoritative documents (not made by the script)
\* ------------------------------------------------------------------------
EditKeys == {K_greeting}
EditValues == {Str(T_Yo), Str(T_Date), Num}

EditSource ==
  /\ pc = "idle"
  /\ edits < MaxEdits
  /\ edited = {}
  /\ \E l \in {src_lang_of(target)}, k \in EditKeys :
       /\ disk[l].exists
       /\ \/ /\ k \in DOMAIN disk[l].core
             /\ disk' = [disk EXCEPT ![l].core = Without(@, k)]
          \/ \E v \in EditValues :
               /\ (k \in DOMAIN disk[l].core => disk[l].core[k] # v)
               /\ disk' = [disk EXCEPT ![l].core = Put(@, k, v)]
       /\ edited' = edited \cup {<<l, k>>}
  /\ edits' = edits + 1
  /\ clean' = {}
  /\ UNCHANGED <<clock, pc, authoritative_en_core, targets, idx, processed, last,
                 origin, target, conforming, passes, runs, probe>>

\* ------------------------------------------------------------------------
\* main
\* ------------------------------------------------------------------------
\* MainStart without the two existence tests
MainStart_unchecked ==
  /\ pc = "idle"
  /\ runs < MaxRuns
  /\ runs' = runs + 1
  /\ processed' = <<>>
  /\ IF FALSE
     THEN /\ pc' = "config_error"
          /\ UNCHANGED authoritative_en_core
     ELSE /\ pc' = "zh_track"
          /\ authoritative_en_core' = split_meta(load_json(disk, SOURCE_EN)).core
  /\ UNCHANGED <<disk, clock, targets, idx, last, origin, edited, clean, target,
                 conforming, passes, edits, probe>>

MainStart ==
  /\ pc = "idle"
  /\ runs < MaxRuns
  /\ runs' = runs + 1
  /\ processed' = <<>>
  /\ IF ~disk[SOURCE_EN].exists \/ ~disk[SOURCE_ZH].exists
     THEN /\ pc' = "config_error"
          /\ UNCHANGED authoritative_en_core
     ELSE /\ pc' = "zh_track"
          /\ authoritative_en_core' = split_meta(load_json(disk, SOURCE_EN)).core
  /\ UNCHANGED <<disk, clock, targets, idx, last, origin, edited, clean, target,
                 conforming, passes, edits, probe>>

MainZhTrack ==
  /\ pc = "zh_track"
  /\ ProcessTarget(ZH_TRACK_TARGET, authoritative_en_core)
  /\ processed' = Append(processed, ZH_TRACK_TARGET)
  /\ IF last'.raised
     THEN pc' = "failed" /\ UNCHANGED <<targets, idx>>
     ELSE /\ pc' = "en_track"
          /\ targets' = list_target_langs_from_folder(disk')
          /\ idx' = 1
  /\ UNCHANGED <<authoritative_en_core, target, conforming, passes, edits, runs, probe>>

MainEnTrack ==
  /\ pc = "en_track"
  /\ idx <= Len(targets)
  /\ IF targets[idx] \in skip
     THEN /\ idx' = idx + 1
          /\ UNCHANGED <<disk, clock, pc, processed, last, origin, edited, clean>>
     ELSE /\ ProcessTarget(targets[idx], authoritative_en_core)
          /\ processed' = Append(processed, targets[idx])
          /\ IF last'.raised
             THEN pc' = "failed" /\ UNCHANGED idx
             ELSE pc' = "en_track" /\ idx' = idx + 1
  /\ UNCHANGED <<authoritative_en_core, targets, target, conforming, passes, edits, runs, probe>>

MainReturn ==
  /\ pc = "en_track"
  /\ idx > Len(targets)
  /\ pc' = "done"
  /\ UNCHANGED <<disk, clock, authoritative_en_core, targets, idx, processed, last,
                 origin, edited, clean, target, conforming, passes, edits, runs, probe>>

\* the script is started again
MainAgain ==
  /\ pc \in {"done", "failed", "config_error"}
  /\ pc' = "idle"
  /\ UNCHANGED <<disk, clock, authoritative_en_core, targets, idx, processed, last,
                 origin, edited, clean, target, conforming, passes, edits, runs, probe>>

\* ------------------------------------------------------------------------
\* Initial documents
\* ------------------------------------------------------------------------
Doc2(k1, v1, k2, v2) == Put(Put(EmptyMap, k1, v1), k2, v2)
Doc3(k1, v1, k2, v2, k3, v3) == Put(Doc2(k1, v1, k2, v2), k3, v3)

NoOrigin == [l \in Langs |-> EmptyMap]

InitCommon ==
  /\ clock = 0
  /\ pc = "idle"
  /\ authoritative_en_core = EmptyMap
  /\ targets = <<>>
  /\ idx = 1
  /\ processed = <<>>
  /\ last = LastNone
  /\ origin = NoOrigin
  /\ edited = {}
  /\ clean = {}
  /\ passes = 0
  /\ edits = 0
  /\ runs = 0
  /\ probe = ProbeNone

\* The run-level specification: main over a directory of locale files
RunEn == {File(Doc2(K_greeting, Str(T_Hi), K_privacy_date, Str(T_Date)), NoMeta), Absent}
RunZh == {File(Doc2(K_greeting, Str(T_Yo), K_privacy_date, Str(T_Date)), NoMeta), Absent}
RunDst == {Absent, File(EmptyMap, NoMeta), File(Put(EmptyMap, K_greeting, Str(T_Extra)), NoMeta)}

Init ==
  /\ InitCommon
  /\ target = <<>>
  /\ conforming = FALSE
  /\ \E en \in RunEn, zh \in RunZh, hant \in {Absent}, fr \in RunDst, de \in RunDst :
       /\ disk = [l \in Langs |->
                 IF l = L_en THEN en ELSE IF l = L_zh THEN zh
                 ELSE IF l = L_zhHant THEN hant ELSE IF l = L_fr THEN fr ELSE de]

Next == MainStart \/ MainZhTrack \/ MainEnTrack \/ MainReturn \/ MainAgain

Spec == Init /\ [][Next]_vars

\* The pass-level specification: process_target_file called again and again
\* on one destination, as successive runs of main call it, between upstream
\* edits of the authoritative documents.
PassFull == File(Doc3(K_greeting, Str(T_Hi), K_title, Str(G_Flows), K_lang_en, Str(T_English)), NoMeta)
PassEn == {PassFull, File(Doc2(K_title, Str(G_Flows), K_lang_en, Str(T_English)), NoMeta)}
PassZh == {PassFull, File(Doc2(K_greeting, Str(T_Hi), K_title, Str(G_Flows)), NoMeta)}
PassDst == {Absent, File(Put(EmptyMap, K_greeting, Str(T_Date)), NoMeta)}

PassDocs ==
  /\ InitCommon
  /\ target \in {ZH_TRACK_TARGET, L_fr}
  /\ \E en \in PassEn, zh \in PassZh, dst \in PassDst :
       /\ en = PassFull \/ zh = PassFull
       /\ target = ZH_TRACK_TARGET \/ zh = PassFull
       /\ disk = [l \in Langs |->
                 IF l = L_en THEN en ELSE IF l = L_zh THEN zh
                 ELSE IF l = target THEN dst ELSE Absent]

PassStep ==
  /\ pc = "idle"
  /\ passes < MaxPasses
  /\ passes' = passes + 1
  /\ ProcessTarget(target, split_meta(load_json(disk, SOURCE_EN)).core)
  /\ UNCHANGED <<pc, authoritative_en_core, targets, idx, processed, target, conforming,
                 edits, runs, probe>>

PassNext == PassStep \/ EditSource

\* the service may answer with any key set
PassInit == PassDocs /\ conforming = FALSE
PassSpec == PassInit /\ [][PassNext]_vars

\* the service answers as its contract says, or fails
ContractInit == PassDocs /\ conforming = TRUE
ContractSpec == ContractInit /\ [][PassNext]_vars

\* ------------------------------------------------------------------------
\* Direct calls of single functions, on arguments drawn from small sets
\* ------------------------------------------------------------------------
K_lang == <<"l", "a", "n", "g">>
K_slang_en == <<"s", "l", "a", "n", "g", "_", "e", "n">>
ClassKeys == {K_greeting, K_lang_en, K_privacy_date, K_lang, K_slang_en}

\* values around the date shape: year, month and day fields, the two
\* separators, and whitespace before or after
DateYears == {<<"2", "0", "2", "4">>, <<"2", "0", "x", "4">>}
DateMonths == {<<"0", "0">>, <<"0", "1">>, <<"0", "2">>, <<"1", "2">>, <<"1", "3">>}
DateDays == {<<"0", "0">>, <<"0", "1">>, <<"3", "1">>, <<"3", "2">>}
DateSeps == {"-", "/"}
DatePads == {<< <<>>, <<>> >>, << <<" ">>, <<>> >>, << <<>>, <<"\n">> >>}
T_ShortDate == <<"2", "0", "2", "4", "-", "3", "-", "1">>

ClassValues ==
  {Str(pad[1] \o y \o <<a>> \o m \o <<b>> \o d \o pad[2]) :
     y \in DateYears, m \in DateMonths, d \in DateDays,
     a \in DateSeps, b \in DateSeps, pad \in DatePads}
  \cup {Str(T_Hi), Str(T_ShortDate), Num}

UnitClassify ==
  /\ probe = ProbeNone /\ passes = 0 /\ edits = 0
  /\ \E k \in ClassKeys, v \in ClassValues :
       probe' = [fn |-> "is_force_copy_item", k |-> k, v |-> v,
                 result |-> is_force_copy_item(k, v)]
  /\ UNCHANGED runvars

\* translate_batch on an empty or a one-key batch, against a service that
\* at each attempt fails or answers with one of two replies
UnitItems == {EmptyMap, Put(EmptyMap, K_greeting, Str(T_Hi))}
UnitAttempts ==
  {ServiceError,
   ServiceReply(Put(EmptyMap, K_greeting, Str(Localized(T_Hi)))),
   ServiceReply(Put(EmptyMap, K_greeting, Str(G_Flows)))}

UnitTranslate ==
  /\ probe = ProbeNone /\ passes = 0 /\ edits = 0
  /\ \E items \in UnitItems, outcomes \in [1..max_retries -> UnitAttempts] :
       probe' = [fn |-> "translate_batch", items |-> items, outcomes |-> outcomes,
                 result |-> translate_batch(items, outcomes)]
  /\ UNCHANGED runvars

\* a pass or an upstream edit, as in the pass-level specifications
UnitPass == probe = ProbeNone /\ PassNext

UnitNext == UnitPass \/ UnitClassify \/ UnitTranslate

UnitSpec == PassInit /\ [][UnitNext]_vars

\* ------------------------------------------------------------------------
\* Properties
\* ------------------------------------------------------------------------
\* A step that is one call of process_target_file; in such a step the
\* unprimed variables are the state the pass started from, last' is what it
\* did and disk' what it left behind.
PassTaken == passes' = passes + 1 \/ Len(processed') = Len(processed) + 1
PassOk == PassTaken /\ ~last'.raised
PassFailed == PassTaken /\ last'.raised
SrcOfPass == load_json(disk, last'.src).core
SrcCoreOfPass == split_meta(load_json(disk, last'.src)).core
EnCoreOfPass == split_meta(load_json(disk, SOURCE_EN)).core
DstBefore == disk[last'.dst]
DstAfter == disk'[last'.dst]
HashesBefore == get_source_hashes(DstBefore.meta)
HashesAfter == get_source_hashes(DstAfter.meta)
blank(v) == ~isinstance_str(v) \/ strip(v.s) = <<>>

\* C1 (as claimed): a successful pass over a destination whose previous pass
\* succeeded, with no edit of the authoritative documents in between, does
\* not call save_json and leaves the destination file as it was, _meta
\* included, at whatever time it runs.
C1_Idempotent ==
  [][(PassOk /\ last'.dst \in clean) => (~last'.saved /\ DstAfter = DstBefore)]_vars

\* C2 (as claimed): when a run of main is over, whether or not a batch
\* failed in it, every destination of the run (zh-Hant and every listed
\* locale other than zh, en, zh-Hant) has been passed to
\* process_target_file.
C2_FailureIsolation ==
  pc \in {"done", "failed"} =>
    \A l \in {ZH_TRACK_TARGET} \cup {x \in Langs \ skip : disk[x].exists} :
      \E i \in 1..Len(processed) : processed[i] = l

\* C3: a pass whose translation batch failed (translate_batch raised after
\* max_retries attempts) has not called save_json, and the destination file
\* is exactly what it was before the pass.
C3_AtomicOnFailure ==
  [][PassFailed => (~last'.saved /\ DstAfter = DstBefore)]_vars

\* C3 witness: a pass over an existing destination file failed after
\* max_retries calls although force-copy or deletion had changed the
\* document in memory.
C3_Witness ==
  /\ last.kind = "pass" /\ last.raised /\ last.calls = max_retries
  /\ last.force_changed \/ last.deleted_changed
  /\ disk[last.dst].exists
  /\ last.doc.core # disk[last.dst].core

\* C4 (as claimed): for every string-valued source key K the pass does not
\* classify as force-copied, K is queued with its source value iff K is
\* absent from the destination, or its destination value is not a string or
\* is empty (read here as: blank), or a recorded fingerprint of K differs
\* from the fingerprint of the source value; nothing else is queued.
C4_Stale(k) ==
  \/ k \notin DOMAIN DstBefore.core
  \/ blank(DstBefore.core[k])
  \/ k \in DOMAIN HashesBefore /\ HashesBefore[k] # sha(SrcCoreOfPass[k].s)

C4_StalenessPlan ==
  [][PassTaken =>
       /\ \A k \in {x \in DOMAIN SrcCoreOfPass \ last'.excluded :
                      isinstance_str(SrcCoreOfPass[x])} :
            (k \in DOMAIN last'.needs_translate) <=> C4_Stale(k)
       /\ \A k \in DOMAIN last'.needs_translate :
            /\ k \in DOMAIN SrcCoreOfPass \ last'.excluded
            /\ last'.needs_translate[k] = SrcCoreOfPass[k]]_vars

\* C5 (as claimed): if K's destination value was translated and
\* fingerprinted by an earlier successful pass, and the authoritative value
\* of K has since been edited to a different text (K still a string the
\* pass does not force-copy), the first pass after the edit queues K.
C5_StalenessDetected ==
  [][PassTaken =>
       \A k \in DOMAIN origin[last'.dst] :
         ( /\ <<last'.src, k>> \in edited
           /\ k \in DOMAIN SrcCoreOfPass \ last'.excluded
           /\ isinstance_str(SrcCoreOfPass[k])
           /\ SrcCoreOfPass[k].s # origin[last'.dst][k] )
         => k \in DOMAIN last'.needs_translate]_vars

\* C6 (as claimed): if before the pass the destination holds a non-empty
\* (read here as: non-blank) string for a source key K the pass does not
\* force-copy, and no fingerprint is recorded for K, then the pass does not
\* send K to the service, and when it succeeds K's value is unchanged and
\* K's recorded fingerprint is that of the current source value.
C6_LegacyProtected ==
  [][PassTaken =>
       \A k \in {x \in DOMAIN SrcCoreOfPass \ last'.excluded :
                   isinstance_str(SrcCoreOfPass[x])} :
         ( /\ k \in DOMAIN DstBefore.core
           /\ ~blank(DstBefore.core[k])
           /\ k \notin DOMAIN HashesBefore )
         => /\ k \notin DOMAIN last'.needs_translate
            /\ ~last'.raised =>
                 /\ k \in DOMAIN DstAfter.core
                 /\ DstAfter.core[k] = DstBefore.core[k]
                 /\ k \in DOMAIN HashesAfter
                 /\ HashesAfter[k] = sha(SrcCoreOfPass[k].s)]_vars

\* C7 (as claimed): after a successful pass, a key that is not in the
\* destination's source document is neither in the destination document nor
\* in _meta.source_hashes.
C7_DeletionPropagated ==
  [][PassOk =>
       \A k \in ModelKeys :
         k \notin DOMAIN SrcOfPass =>
           k \notin DOMAIN DstAfter.core /\ k \notin DOMAIN HashesAfter]_vars

\* C8 (as claimed): after a successful pass, every key the pass classifies
\* as force-copied is in the destination with exactly the authoritative
\* (en.json) value.
C8_ForceCopied ==
  [][PassOk =>
       \A k \in last'.forced :
         k \in DOMAIN DstAfter.core /\ DstAfter.core[k] = EnCoreOfPass[k]]_vars

\* C9 (as claimed): after a successful pass, every key of the destination
\* document other than _meta is a key of its source document.
C9_KeysContained ==
  [][PassOk => DOMAIN DstAfter.core \subseteq DOMAIN SrcOfPass]_vars

\* C10 (as claimed): after a successful pass, for every key the pass does
\* not force-copy whose destination value was produced by translation and
\* that has a recorded fingerprint, the fingerprint is that of the source
\* text the value was translated from.
C10_FingerprintProvenance ==
  [][PassOk =>
       \A k \in DOMAIN origin'[last'.dst] :
         (k \in DOMAIN HashesAfter /\ k \notin last'.forced \cup last'.excluded)
         => HashesAfter[k] = sha(origin'[last'.dst][k])]_vars

\* C11 (as claimed): a reply whose key set is not that of the submitted
\* batch is never returned by translate_batch to a pass: whenever a pass
\* succeeds, the mapping it received from translate_batch and merged has
\* exactly the keys of needs_translate.
C11_ResponseValidated ==
  [][PassOk => DOMAIN last'.reply = DOMAIN last'.needs_translate]_vars

\* the date shape as the claim words it: a string of exactly 10 characters,
\* digits with hyphens at the 5th and 8th positions, month 1..12, day 1..31
C12_DateShaped(v) ==
  /\ isinstance_str(v)
  /\ Len(v.s) = 10
  /\ v.s[5] = "-" /\ v.s[8] = "-"
  /\ \A i \in {1, 2, 3, 4, 6, 7, 9, 10} : v.s[i] \in Digits
  /\ 10 * DigitVal(v.s[6]) + DigitVal(v.s[7]) \in 1..12
  /\ 10 * DigitVal(v.s[9]) + DigitVal(v.s[10]) \in 1..31

\* C12 (as claimed): is_force_copy_item(k, v) is true iff k starts with
\* lang_, or k is in FORCE_COPY_KEYS_FROM_EN, or v is a string of exactly 10
\* characters of the shape YYYY-MM-DD with month in 1..12 and day in 1..31.
C12_Classifier ==
  probe.fn = "is_force_copy_item" =>
    (probe.result <=>
       \/ startswith(probe.k, <<"l", "a", "n", "g", "_">>)
       \/ probe.k \in FORCE_COPY_KEYS_FROM_EN
       \/ C12_DateShaped(probe.v))

\* the en-track part of a run's sequence of destinations
EnTrackOf(seq) == SubSeq(seq, 2, Len(seq))

\* C13 (as claimed): in a run of main the first destination is zh-Hant,
\* read from zh.json, and it is the only one read from zh.json; every later
\* destination is read from en.json, is a listed locale other than zh, en
\* and zh-Hant, and comes after the previous one in sorted order (so none
\* is processed twice); and when the run is over, the en track has covered
\* every listed locale other than zh, en and zh-Hant.
C13_FanOut ==
  [][/\ (PassTaken /\ Len(processed') = 1) =>
          /\ last'.dst = ZH_TRACK_TARGET /\ processed'[1] = ZH_TRACK_TARGET
          /\ last'.src = SOURCE_ZH
     /\ (PassTaken /\ Len(processed') > 1) =>
          /\ last'.dst = processed'[Len(processed')]
          /\ last'.src = SOURCE_EN
          /\ last'.dst \notin {L_zh, L_en, ZH_TRACK_TARGET}
          /\ disk[last'.dst].exists
          /\ Len(processed') > 2 => str_lt(processed[Len(processed)], last'.dst)
     /\ (pc' \in {"done", "failed"} /\ pc \notin {"done", "failed"}) =>
          {EnTrackOf(processed')[i] : i \in 1..Len(EnTrackOf(processed'))}
            = {l \in Langs \ {L_zh, L_en, ZH_TRACK_TARGET} : disk'[l].exists}
    ]_vars

\* text t occurs in text s
occurs(s, t) == \E i \in 1..(Len(s) - Len(t) + 1) : SubSeq(s, i, i + Len(t) - 1) = t

C15_ShortCircuit ==
  [][/\ (probe'.fn = "translate_batch" /\ DOMAIN probe'.items = {}) =>
          probe'.result = [raised |-> FALSE, out |-> EmptyMap, calls |-> 0]
     /\ (PassTaken /\ DOMAIN last'.needs_translate = {}) =>
          (last'.calls = 0 /\ ~last'.raised /\ last'.reply = EmptyMap)]_vars

\* C15 witness: translate_batch was called with an empty batch against a
\* service that fails at every attempt, and returned.
C15_Witness ==
  /\ probe.fn = "translate_batch"
  /\ DOMAIN probe.items = {}
  /\ \A i \in 1..3 : ~probe.outcomes[i].ok
  /\ ~probe.result.raised

\* C18: translate_batch on a non-empty batch calls the service between 1
\* and 3 times; it raises iff the first 3 attempts all failed, after
\* exactly 3 calls; otherwise it stops at the first attempt that answers
\* and returns that reply (each value through apply_glossary), later
\* attempts never being made.
C18_BoundedRetry ==
  (probe.fn = "translate_batch" /\ DOMAIN probe.items # {}) =>
    /\ probe.result.calls \in 1..3
    /\ probe.result.raised <=> \A i \in 1..3 : ~probe.outcomes[i].ok
    /\ probe.result.raised => probe.result.calls = 3
    /\ ~probe.result.raised =>
         /\ probe.outcomes[probe.result.calls].ok
         /\ \A j \in 1..(probe.result.calls - 1) : ~probe.outcomes[j].ok
         /\ probe.result.out =
              [k \in DOMAIN probe.outcomes[probe.result.calls].data |->
                 Str(apply_glossary(probe.outcomes[probe.result.calls].data[k].s))]

\* C18 witness: the first attempt failed, the second answered, the third
\* would have answered something else; translate_batch returned after two
\* calls.
C18_Witness ==
  /\ probe.fn = "translate_batch" /\ DOMAIN probe.items # {}
  /\ ~probe.outcomes[1].ok /\ probe.outcomes[2].ok /\ probe.outcomes[3].ok
  /\ probe.outcomes[2].data # probe.outcomes[3].data
  /\ probe.result.calls = 2

\* C16: when main starts with en.json or zh.json missing, it ends in the
\* configuration error at once: no file is written, process_target_file
\* is not called for any destination (so no destination is read and the
\* service is not called), and the run stays so until the script is
\* started again.
C16_ConfigErrorEarly ==
  [][/\ (pc = "idle" /\ pc' # "idle"
          /\ (~disk[SOURCE_EN].exists \/ ~disk[SOURCE_ZH].exists)) =>
          /\ pc' = "config_error"
          /\ disk' = disk
          /\ processed' = <<>>
          /\ last' = last
     /\ pc = "config_error" =>
          /\ disk' = disk
          /\ last' = last
          /\ Len(processed') = 0]_vars

\* C16 witness: a run ended in the configuration error while a destination
\* file was there to be processed.
C16_Witness ==
  /\ pc = "config_error"
  /\ ~disk[SOURCE_EN].exists \/ ~disk[SOURCE_ZH].exists
  /\ \E l \in Langs \ skip : disk[l].exists

\* C17: in a run of main, whatever locale files the directory holds,
\* save_json is never called on en.json or zh.json: no destination of a
\* pass is one of the two, and the two files are after every step what
\* they were before it.
C17_SourcesReadOnly ==
  [][/\ PassTaken => last'.dst \notin {SOURCE_EN, SOURCE_ZH}
     /\ disk'[SOURCE_EN] = disk[SOURCE_EN]
     /\ disk'[SOURCE_ZH] = disk[SOURCE_ZH]]_vars

\* C17 witness: a run reached its end, en.json and zh.json were in the
\* listing the en track went through, and a destination was written.
C17_Witness ==
  /\ pc = "done"
  /\ \E i \in 1..Len(targets) : targets[i] = SOURCE_EN
  /\ \E i \in 1..Len(targets) : targets[i] = SOURCE_ZH
  /\ last.kind = "pass" /\ last.saved /\ last.dst \notin skip

\* the destination files that hold the keys of file d with one stored value
\* different
SameKeys(d) ==
  {[d EXCEPT !.core[k] = v] :
     k \in DOMAIN d.core, v \in {Str(T_Extra), Str(T_Date), Str(T_Hi)}}

\* C19 (as claimed): the keys a pass leaves out of its plan as force-copied,
\* of the source and of the destination, are the same for any other
\* destination file that holds the same keys with other stored values, the
\* authoritative documents being the same.
C19_ClassifiedBySource ==
  [][PassTaken =>
       \A alt \in SameKeys(DstBefore) :
         \E r \in {process_target_file([disk EXCEPT ![last'.dst] = alt], last'.src,
                                       last'.dst, EnCoreOfPass, clock', AllFail)} :
           /\ r.excluded = last'.excluded
           /\ r.dst_excluded = last'.dst_excluded]_vars

\* C20 (as claimed): after a successful pass, every key of
\* _meta.source_hashes is a key of the destination document.
C20_HashesContained ==
  [][PassOk => DOMAIN HashesAfter \subseteq DOMAIN DstAfter.core]_vars

\* C21 (as claimed): after a successful pass in which the service returned
\* a value for every key of the batch, every string-valued key of the
\* destination's source document (zh.json on the zh track, en.json on the
\* en track) is a key of the destination document.
C21_Coverage ==
  [][(PassOk /\ DOMAIN last'.needs_translate \subseteq DOMAIN last'.data) =>
       DOMAIN SrcCoreOfPass \subseteq DOMAIN DstAfter.core]_vars

\* C22 (as claimed): a pass over a destination whose previous pass
\* succeeded, with no edit of the authoritative documents in between,
\* builds an empty needs_translate batch and makes no call of the service,
\* whatever values the previous pass received.  The previous pass is taken
\* with a reply that has exactly the keys of its batch, so that only the
\* values of the reply vary.
C22_Converges ==
  [][(/\ PassTaken /\ last'.dst \in clean
      /\ last.kind = "pass" /\ last.dst = last'.dst /\ ~last.raised
      /\ DOMAIN last.data = DOMAIN last.needs_translate) =>
       (last'.needs_translate = EmptyMap /\ last'.calls = 0)]_vars

====
